---- MODULE Spec2Model ----
\* MessageQueue (libs/surfaceflinger/MessageQueue.cpp): a time-ordered message
\* list and an invalidate latch behind one mutex and one condition variable,
\* with one consumer thread in waitMessage() and producer threads in
\* queueMessage() / invalidate().
EXTENDS Integers, Sequences, FiniteSets, TLC

\* ------------------------------------------------------------------ bounds
MaxTime == 2
MaxInvalidates == 2

\* ------------------------------------------------------------- value sets
Msgs == {"m1", "m2", "m3"}
INVALIDATE == "INVALIDATE"
NoMsg == "null"
Consumer == "consumer"
Producers == {"p1", "p2"}
NoThread == "none"
RelTimes == {-1, 0, 1}
Timeouts == {-1, 0, 1}
MsgIndex(m) == CASE m = "m1" -> 1 [] m = "m2" -> 2 [] m = "m3" -> 3 [] OTHER -> 0

VARIABLES
    clock,          \* systemTime()
    mMessages,      \* MessageList::mList, a sequence of message ids
    when,           \* MessageBase::when of every message, mInvalidateMessage included
    mInvalidate,    \* MessageQueue::mInvalidate
    mLock,          \* the thread holding MessageQueue::mLock
    signalled,      \* mCondition has been signalled while the consumer waits on it
    pc,             \* the consumer's position in waitMessage()
    timeout,        \* waitMessage()'s argument
    timeoutTime,    \* waitMessage()'s local timeoutTime
    result,         \* waitMessage()'s local result
    again,          \* waitMessage()'s local again
    sleepUntil,     \* the deadline given to mCondition.wait(), -1 for none
    ppc,            \* each producer's position
    parg,           \* each producer's arguments <<message, relTime>>
    hist            \* history of the run, read by the properties only

vars == <<clock, mMessages, when, mInvalidate, mLock, signalled, pc, timeout,
          timeoutTime, result, again, sleepUntil, ppc, parg, hist>>

queueVars == <<mMessages, when, mInvalidate>>
consumerVars == <<pc, timeout, timeoutTime, result, again, sleepUntil>>
producerVars == <<ppc, parg>>

\* ------------------------------------------------------------ MessageList
\* operator< of MessageBase: strict comparison of the due times.
Less(w, a, b) == w[a] < w[b]

\* LIST::insert(pos, node): node goes in front of the element at pos.
ListInsert(list, pos, node) ==
    SubSeq(list, 1, pos - 1) \o <<node>> \o SubSeq(list, pos, Len(list))

\* The positions `++end' can denote. end() is the past-the-end iterator
\* (position Len+1); incrementing it is outside the container's contract: on a
\* circular list with a sentinel node it wraps to begin() (position 1),
\* otherwise it stays past the end.
IncrementedEnd(list) == {1, Len(list) + 1}

\* MessageList::insert, with the position `++end' denotes given as pastEnd.
insert(list, w, node, pastEnd) ==
    IF \E i \in 1..Len(list) : Less(w, node, list[i])
    THEN LET cur == CHOOSE i \in 1..Len(list) :
                        /\ Less(w, node, list[i])
                        /\ \A j \in 1..(i - 1) : ~Less(w, node, list[j])
         IN  ListInsert(list, cur, node)
    ELSE ListInsert(list, pastEnd, node)

\* Mutant of remove: the element behind the head goes with it.
RemoveTwo(list) == IF Len(list) >= 2 THEN Tail(Tail(list)) ELSE Tail(list)

\* MessageList::remove(begin()).
remove(list) == Tail(list)

\* ------------------------------------------------------------------- Init
Init ==
    /\ clock = 1
    /\ mMessages = <<>>
    /\ when = [m \in Msgs \cup {INVALIDATE} |-> 0]
    /\ mInvalidate = FALSE
    /\ mLock = NoThread
    /\ signalled = FALSE
    /\ pc = "idle"
    /\ timeout = 0
    /\ timeoutTime = 0
    /\ result = NoMsg
    /\ again = FALSE
    /\ sleepUntil = -1
    /\ ppc = [p \in Producers |-> "idle"]
    /\ parg = [p \in Producers |-> <<NoMsg, 0>>]
    /\ hist = [posted       |-> {},                    \* messages given to queueMessage()
               due          |-> [m \in Msgs |-> 0],    \* post time + delay of each
               selected     |-> [m \in Msgs |-> 0],    \* times each was taken off the list
               handled      |-> [m \in Msgs |-> 0],    \* times each one's handler ran
               redispatched |-> FALSE,  \* a handler of this call returned again=true
               quiet        |-> FALSE,  \* this call began on an empty, unlatched queue, none posted since
               probe        |-> FALSE,  \* this call began with nothing due, none posted since
               invSince     |-> 0,      \* invalidate() calls since INVALIDATE was last selected
               waited       |-> FALSE,  \* waitMessage() has been called
               plain        |-> TRUE,   \* no invalidate(), no negative delay, no post after the first wait
               expect       |-> NoMsg,  \* the message last posted, if posted with delay 0, the latch
                                        \* clear and no message of earlier due time listed, and
                                        \* nothing posted, invalidated or selected since
               strict       |-> 0,      \* 1: no message of equal due time was listed either;
                                        \* 2: and the list held messages and the consumer was parked
               met          |-> FALSE,  \* the selection in hand is the one expected with strict = 2
               overtook     |-> FALSE,  \* the selection in hand passed over a due head
               coalesced    |-> 0]      \* invalidate() calls served by the selection in hand

\* Mutant of Signal: the condition variable is not signalled.
NoSignal == signalled' = signalled

\* mCondition.signal(): wakes the consumer if it is waiting, else has no effect.
Signal == signalled' = (pc = "condWait")

\* A post or an invalidate ran: the current wait call is no longer undisturbed.
Disturbed(h) == [h EXCEPT !.quiet = FALSE, !.probe = FALSE]

\* Mutant of LockFree: the mutex is taken whoever holds it.
LockIgnored == TRUE

\* Mutex::Autolock _l(mLock) goes through when no thread holds mLock.
LockFree == mLock = NoThread

\* Mutant of Unlocked: the mutex stays with the thread that held it.
StillLocked == mLock

\* The Autolock goes out of scope: no thread holds mLock.
Unlocked == NoThread

\* ---------------------------------------------------------------- producers
\* queueMessage(): Mutex::Autolock _l(mLock).
QueueMessageLock(p, m, relTime) ==
    /\ ppc[p] = "idle"
    /\ m \notin hist.posted
    /\ \A o \in Msgs : MsgIndex(o) < MsgIndex(m) => o \in hist.posted
    /\ LockFree
    /\ mLock' = p
    /\ ppc' = [ppc EXCEPT ![p] = "queueMessage"]
    /\ parg' = [parg EXCEPT ![p] = <<m, relTime>>]
    /\ hist' = [hist EXCEPT !.posted = @ \cup {m}]
    /\ UNCHANGED <<clock, queueVars, signalled, consumerVars>>

\* Mutant of WhenOf: the delay is dropped.
WhenNow(now, relTime) == now

\* message->when = systemTime() + relTime
WhenOf(now, relTime) == now + relTime

\* queueMessage(): the body under the lock, and the unlock at return.
QueueMessage(p) ==
    /\ ppc[p] = "queueMessage"
    /\ mLock = p
    /\ LET m == parg[p][1]
           relTime == parg[p][2]
           w == [when EXCEPT ![m] = WhenOf(clock, relTime)]
       IN  /\ when' = w
           /\ \E pastEnd \in IncrementedEnd(mMessages) :
                 mMessages' = insert(mMessages, w, m, pastEnd)
           /\ hist' = [Disturbed(hist) EXCEPT
                          !.due[m] = clock + relTime,
                          !.plain = @ /\ ~hist.waited /\ relTime >= 0,
                          !.expect = IF /\ relTime = 0
                                        /\ ~mInvalidate
                                        /\ \A i \in 1..Len(mMessages) :
                                              hist.due[mMessages[i]] >= clock
                                     THEN m ELSE NoMsg,
                          !.strict = IF /\ relTime = 0
                                        /\ ~mInvalidate
                                        /\ \A i \in 1..Len(mMessages) :
                                              hist.due[mMessages[i]] > clock
                                     THEN (IF mMessages # <<>> /\ pc = "condWait"
                                           THEN 2 ELSE 1)
                                     ELSE 0]
    /\ Signal
    /\ mLock' = NoThread
    /\ ppc' = [ppc EXCEPT ![p] = "idle"]
    /\ parg' = [parg EXCEPT ![p] = <<NoMsg, 0>>]
    /\ UNCHANGED <<clock, mInvalidate, consumerVars>>

\* invalidate(): Mutex::Autolock _l(mLock).
InvalidateLock(p) ==
    /\ ppc[p] = "idle"
    /\ hist.invSince < MaxInvalidates
    /\ LockFree
    /\ mLock' = p
    /\ ppc' = [ppc EXCEPT ![p] = "invalidate"]
    /\ UNCHANGED <<clock, queueVars, signalled, consumerVars, parg, hist>>

\* invalidate(): the body under the lock, and the unlock at return.
Invalidate(p) ==
    /\ ppc[p] = "invalidate"
    /\ mLock = p
    /\ mInvalidate' = TRUE
    /\ Signal
    /\ mLock' = NoThread
    /\ ppc' = [ppc EXCEPT ![p] = "idle"]
    /\ hist' = [Disturbed(hist) EXCEPT !.invSince = @ + 1, !.plain = FALSE,
                                        !.expect = NoMsg, !.strict = 0]
    /\ UNCHANGED <<clock, mMessages, when, consumerVars, parg>>

\* dump(): Mutex::Autolock _l(mLock).
DumpLock(p) ==
    /\ ppc[p] = "idle"
    /\ LockFree
    /\ mLock' = p
    /\ ppc' = [ppc EXCEPT ![p] = "dump"]
    /\ UNCHANGED <<clock, queueVars, signalled, consumerVars, parg, hist>>

\* dump(): dumpLocked() reads the list under the lock and changes nothing; the
\* unlock at return.
Dump(p) ==
    /\ ppc[p] = "dump"
    /\ mLock = p
    /\ mLock' = NoThread
    /\ ppc' = [ppc EXCEPT ![p] = "idle"]
    /\ UNCHANGED <<clock, queueVars, signalled, consumerVars, parg, hist>>

\* ----------------------------------------------------------------- consumer
\* const nsecs_t timeoutTime = systemTime() + timeout
TimeoutTime(now, t) == now + t

\* waitMessage(timeout): entry, up to the first Autolock. The local `again' is
\* not initialised and not read before line 128 assigns it; it starts FALSE here.
WaitMessage(t) ==
    /\ pc = "idle"
    /\ timeout' = t
    /\ result' = NoMsg
    /\ timeoutTime' = TimeoutTime(clock, t)
    /\ pc' = "lock"
    /\ hist' = [hist EXCEPT
                   !.quiet = (mMessages = <<>> /\ ~mInvalidate /\ mLock = NoThread),
                   !.probe = /\ ~mInvalidate
                             /\ mLock = NoThread
                             /\ (mMessages = <<>> \/ when[Head(mMessages)] > clock),
                   !.redispatched = FALSE,
                   !.waited = TRUE]
    /\ again' = FALSE
    /\ UNCHANGED <<clock, queueVars, mLock, signalled, sleepUntil, producerVars>>

\* Mutex::Autolock _l(mLock) at the top of the inner loop.
Lock ==
    /\ pc = "lock"
    /\ LockFree
    /\ mLock' = Consumer
    /\ pc' = "check"
    /\ UNCHANGED <<clock, queueVars, signalled, timeout, timeoutTime, result, again,
                   sleepUntil, producerVars, hist>>

\* cur != mMessages.end() and result->when <= now
HeadDue(now) == mMessages # <<>> /\ when[Head(mMessages)] <= now

\* Mutant of Pending: a due head is served before the invalidate message.
PendingUnlessDue == mInvalidate /\ ~HeadDue(clock)

\* if (mInvalidate)
Pending == mInvalidate

\* Mutant of ClearedLatch: the latch is left as it was.
KeptLatch == mInvalidate

\* mInvalidate = false, when the invalidate message is selected
ClearedLatch == FALSE

\* Mutant of TimedOut: the test for a timeout being given is dropped.
TimedOutAlways(now) == timeoutTime < now

\* Mutant of TimedOut: the timeout is reported at the deadline itself.
TimedOutAtDeadline(now) == timeout >= 0 /\ timeoutTime <= now

\* if (timeout>=0 && timeoutTime < now)
TimedOut(now) == timeout >= 0 /\ timeoutTime < now

\* nextEventTime as it stands at line 109: -1 with no message, else the head's
\* due time, clamped to timeoutTime when there is a timeout.
NextEventTime ==
    IF mMessages = <<>>
    THEN -1
    ELSE LET t == when[Head(mMessages)]
         IN  IF timeout >= 0 /\ t > 0 /\ t > timeoutTime THEN timeoutTime ELSE t

\* One pass of the inner loop with the lock held: select the invalidate
\* message, select the head, report the timeout, or wait on mCondition.
CheckState ==
    /\ pc = "check"
    /\ mLock = Consumer
    /\ mLock' = Unlocked
    /\ LET now == clock IN
       IF Pending
       THEN /\ mInvalidate' = ClearedLatch
            /\ when' = [when EXCEPT ![INVALIDATE] = now]
            /\ result' = INVALIDATE
            /\ pc' = "handler"
            /\ hist' = [hist EXCEPT !.invSince = 0,
                                    !.coalesced = hist.invSince,
                                    !.overtook = HeadDue(now),
                                    !.expect = NoMsg, !.strict = 0]
            /\ UNCHANGED <<mMessages, sleepUntil, signalled, timeoutTime>>
       ELSE IF HeadDue(now)
       THEN /\ result' = Head(mMessages)
            /\ mMessages' = remove(mMessages)
            /\ pc' = "handler"
            /\ hist' = [hist EXCEPT !.selected[Head(mMessages)] = @ + 1,
                                    !.met = (hist.strict = 2 /\ hist.expect = Head(mMessages)),
                                    !.expect = NoMsg, !.strict = 0]
            /\ UNCHANGED <<when, mInvalidate, sleepUntil, signalled, timeoutTime>>
       ELSE IF mMessages # <<>> /\ TimedOut(now)
       THEN /\ result' = NoMsg
            /\ pc' = "idle"
            /\ timeoutTime' = 0
            /\ UNCHANGED <<queueVars, sleepUntil, signalled, hist>>
       ELSE IF NextEventTime = 0
       THEN /\ result' = NoMsg
            /\ pc' = "lock"
            /\ UNCHANGED <<queueVars, sleepUntil, signalled, timeoutTime, hist>>
       ELSE /\ result' = NoMsg
            /\ pc' = "condWait"
            /\ sleepUntil' = NextEventTime
            /\ signalled' = FALSE
            /\ UNCHANGED <<queueVars, timeoutTime, hist>>
    /\ UNCHANGED <<clock, timeout, again, producerVars>>

\* mCondition.wait() returns (signalled, or its deadline reached) with the lock
\* held again; the Autolock then goes out of scope and the loop starts over.
Wake ==
    /\ pc = "condWait"
    /\ signalled \/ (sleepUntil >= 0 /\ sleepUntil <= clock)
    /\ mLock = NoThread
    /\ pc' = "lock"
    /\ signalled' = FALSE
    /\ sleepUntil' = -1
    /\ UNCHANGED <<clock, queueVars, mLock, timeout, timeoutTime, result, again,
                   producerVars, hist>>

\* mCondition.wait() returns with nothing having happened (spurious wakeup).
SpuriousWake ==
    /\ pc = "condWait"
    /\ ~signalled
    /\ ~(sleepUntil >= 0 /\ sleepUntil <= clock)
    /\ mLock = NoThread
    /\ pc' = "lock"
    /\ sleepUntil' = -1
    /\ UNCHANGED <<clock, queueVars, mLock, signalled, timeout, timeoutTime, result,
                   again, producerVars, hist>>

\* result's handler has run: the selection in hand is over.
Handled(h) ==
    [h EXCEPT !.handled = IF result \in Msgs THEN [@ EXCEPT ![result] = @ + 1] ELSE @,
              !.overtook = FALSE, !.coalesced = 0, !.met = FALSE]

\* Mutant of LoopAgain: the loop is left whatever the handler returned.
LoopNever(a) == FALSE

\* } while (again)
LoopAgain(a) == a

\* again = result->handler(), run without the lock; then loop or return result.
Handler(a) ==
    /\ pc = "handler"
    /\ again' = a
    /\ IF LoopAgain(a)
       THEN /\ result' = NoMsg
            /\ timeoutTime' = TimeoutTime(clock, timeout)
            /\ pc' = "lock"
            /\ hist' = [Handled(hist) EXCEPT !.redispatched = TRUE]
       ELSE /\ result' = result
            /\ timeoutTime' = 0
            /\ pc' = "idle"
            /\ hist' = Handled(hist)
    /\ UNCHANGED <<clock, queueVars, mLock, signalled, timeout, sleepUntil, producerVars>>

\* systemTime() advances.
Tick ==
    /\ clock < MaxTime
    /\ clock' = clock + 1
    /\ UNCHANGED <<queueVars, mLock, signalled, consumerVars, producerVars, hist>>

Next ==
    \/ \E p \in Producers, m \in Msgs, r \in RelTimes : QueueMessageLock(p, m, r)
    \/ \E p \in Producers : QueueMessage(p)
    \/ \E p \in Producers : InvalidateLock(p)
    \/ \E p \in Producers : Invalidate(p)
    \/ \E t \in Timeouts : WaitMessage(t)
    \/ Lock
    \/ CheckState
    \/ Wake
    \/ SpuriousWake
    \/ \E a \in BOOLEAN : Handler(a)
    \/ Tick

Spec == Init /\ [][Next]_vars

\* Producers that only post, with due times the clock can reach (the clock
\* stands still while a producer is inside queueMessage(), so that the due
\* time it computes stays within MaxTime), and a consumer that keeps calling
\* waitMessage(): every thread that can run gets to run.
PostNext ==
    \/ \E p \in Producers, m \in Msgs, r \in RelTimes :
          clock + r <= MaxTime /\ QueueMessageLock(p, m, r)
    \/ \E p \in Producers : QueueMessage(p)
    \/ \E t \in Timeouts : WaitMessage(t)
    \/ Lock
    \/ CheckState
    \/ Wake
    \/ SpuriousWake
    \/ \E a \in BOOLEAN : Handler(a)
    \/ (\A p \in Producers : ppc[p] = "idle") /\ Tick

LiveSpec ==
    /\ Init
    /\ [][PostNext]_vars
    /\ WF_vars(\E p \in Producers : QueueMessage(p))
    /\ WF_vars(\E t \in Timeouts : WaitMessage(t))
    /\ WF_vars(Lock)
    /\ WF_vars(CheckState)
    /\ WF_vars(Wake)
    /\ WF_vars(\E a \in BOOLEAN : Handler(a))
    /\ WF_vars(Tick)

\* A time as it reads after the clock's origin has moved on by one tick: times
\* from now on come one nearer, times already past stay past. waitMessage()
\* and insert() only compare a time to now or to a time computed from now.
Earlier(t) == IF t >= clock THEN t - 1 ELSE t

\* systemTime() advances, told by the times kept rather than by the clock.
Shift ==
    /\ \E m \in Msgs : when[m] >= clock \/ timeoutTime >= clock \/ sleepUntil >= clock
    /\ when' = [m \in Msgs \cup {INVALIDATE} |-> Earlier(when[m])]
    /\ timeoutTime' = Earlier(timeoutTime)
    /\ sleepUntil' = Earlier(sleepUntil)
    /\ hist' = [hist EXCEPT !.due = [m \in Msgs |-> Earlier(hist.due[m])]]
    /\ UNCHANGED <<clock, mMessages, mInvalidate, mLock, signalled, pc, timeout,
                   result, again, producerVars>>

\* A message whose handler has run is taken up by its owner, to be given to
\* queueMessage() again.
Recycle(m) ==
    /\ m \in hist.posted
    /\ hist.handled[m] = 1
    /\ \A p \in Producers : parg[p][1] # m
    /\ hist' = [hist EXCEPT !.posted = @ \ {m},
                            !.selected[m] = 0,
                            !.handled[m] = 0,
                            !.due[m] = 0]
    /\ UNCHANGED <<clock, queueVars, mLock, signalled, consumerVars, producerVars>>

\* Producers that post without end, with delays that are not negative, and a
\* consumer that keeps calling waitMessage().
StreamNext ==
    \/ \E p \in Producers, m \in Msgs, r \in RelTimes :
          r >= 0 /\ QueueMessageLock(p, m, r)
    \/ \E p \in Producers : QueueMessage(p)
    \/ \E m \in Msgs : Recycle(m)
    \/ \E t \in Timeouts : WaitMessage(t)
    \/ Lock
    \/ CheckState
    \/ Wake
    \/ SpuriousWake
    \/ \E a \in BOOLEAN : Handler(a)
    \/ Shift

\* Every thread that can run gets to run, the consumer gets the mutex if it is
\* free again and again, and time passes.
StreamSpec ==
    /\ Init
    /\ [][StreamNext]_vars
    /\ WF_vars(\E p \in Producers : QueueMessage(p))
    /\ WF_vars(\E t \in Timeouts : WaitMessage(t))
    /\ SF_vars(Lock)
    /\ WF_vars(CheckState)
    /\ SF_vars(Wake)
    /\ WF_vars(\E a \in BOOLEAN : Handler(a))
    /\ WF_vars(Shift)

\* Every call of the interface, dump() included, at one clock reading: which
\* thread holds the mutex does not depend on the time.
DumpNext ==
    \/ \E p \in Producers, m \in Msgs, r \in RelTimes : QueueMessageLock(p, m, r)
    \/ \E p \in Producers : QueueMessage(p)
    \/ \E p \in Producers : InvalidateLock(p)
    \/ \E p \in Producers : Invalidate(p)
    \/ \E p \in Producers : DumpLock(p)
    \/ \E p \in Producers : Dump(p)
    \/ \E t \in Timeouts : WaitMessage(t)
    \/ Lock
    \/ CheckState
    \/ Wake
    \/ SpuriousWake
    \/ \E a \in BOOLEAN : Handler(a)

DumpSpec == Init /\ [][DumpNext]_vars

\* ------------------------------------------------------------- properties
\* The consumer is parked on mCondition.
Parked == pc = "condWait"

\* The step in which waitMessage() selects a message for delivery.
Selects == pc = "check" /\ pc' = "handler"

\* C1: a wait(T), T >= 0, that began on an empty queue with the latch clear and
\* has seen no post and no invalidate returns nothing once the clock has passed
\* entry + T; so whenever it is parked on the condition variable, it is parked
\* with a deadline, and one no later than entry + T.
C1_QuietWaitHasDeadline ==
    (hist.quiet /\ timeout >= 0 /\ Parked)
        => (sleepUntil >= 0 /\ sleepUntil <= timeoutTime)

\* C2: wait(0) that began with the latch clear and no message due, and has seen
\* no post and no invalidate, never blocks on the condition variable.
C2_ProbeNeverBlocks ==
    (hist.probe /\ timeout = 0) => ~Parked

\* C3: whenever waitMessage() selects a message while the latch is set, it
\* selects the invalidate message, stamps it with the clock reading, clears the
\* latch and leaves the list as it was; an ordinary message is only ever
\* selected by taking the head off the list, so the messages passed over are
\* delivered later in the order they had.
C3_InvalidatePreempts ==
    [][/\ (Selects /\ mInvalidate)
            => /\ result' = INVALIDATE
               /\ when'[INVALIDATE] = clock
               /\ ~mInvalidate'
               /\ mMessages' = mMessages
       /\ (Selects /\ result' \in Msgs)
            => /\ mMessages # <<>>
               /\ result' = Head(mMessages)
               /\ mMessages' = Tail(mMessages)]_vars

\* C3 witness: the invalidate message is in hand, selected over a head that was due.
C3_Witness ==
    pc = "handler" /\ result = INVALIDATE /\ hist.overtook /\ mMessages # <<>>

\* C4: the latch is set exactly when invalidate() has been called since the
\* invalidate message was last selected; a selection returns the invalidate
\* message exactly when there was such a call, however many there were, and
\* that selection clears the latch.
C4_InvalidateCoalescing ==
    [][/\ mInvalidate' <=> (hist'.invSince >= 1)
       /\ Selects => ((result' = INVALIDATE) <=> (hist.invSince >= 1))
       /\ (Selects /\ result' = INVALIDATE)
            => (~mInvalidate' /\ hist'.invSince = 0)]_vars

\* C4 witness: one invalidate message in hand answers two invalidate() calls.
C4_Witness ==
    pc = "handler" /\ result = INVALIDATE /\ hist.coalesced >= 2 /\ ~mInvalidate

\* C5: with no invalidate, no negative delay and every post complete before the
\* consumer first waits, each ordinary message selected comes after every one
\* selected before it: a later due time, or the same due time and posted later
\* (messages are posted in the order of their index).
C5_DeliveryOrder ==
    [][(hist.plain /\ Selects /\ result' \in Msgs)
          => \A d \in Msgs :
                hist.selected[d] >= 1
                   => \/ when[d] < when[result']
                      \/ when[d] = when[result'] /\ MsgIndex(d) < MsgIndex(result')]_vars

\* C6: an ordinary message is never selected at a clock reading earlier than
\* the clock reading of its post plus its delay.
C6_DueTimeHonored ==
    [][(Selects /\ result' \in Msgs) => clock >= hist.due[result']]_vars

\* C6 witness: the consumer has looked at a head that is not due yet, left it on
\* the list and parked until its due time.
C6_Witness ==
    /\ Parked
    /\ mMessages # <<>>
    /\ hist.due[Head(mMessages)] > clock
    /\ sleepUntil = hist.due[Head(mMessages)]

Occurrences(list, m) == Cardinality({i \in 1..Len(list) : list[i] = m})

PostComplete(m) == m \in hist.posted /\ \A p \in Producers : parg[p][1] # m

\* Every message whose post is complete is on the list once or has been taken
\* off it once, never both; its handler has run once, unless it is the message
\* in hand; nothing else is on the list.
Conserved ==
    \A m \in Msgs :
       /\ Occurrences(mMessages, m) + hist.selected[m] = (IF PostComplete(m) THEN 1 ELSE 0)
       /\ hist.handled[m] =
             hist.selected[m] - (IF pc = "handler" /\ result = m THEN 1 ELSE 0)

\* C7: with producers posting concurrently and one consumer waiting again and
\* again, every posted message is delivered exactly once: it is never lost and
\* never delivered twice, and a message on the list is delivered in the end.
C7_ExactlyOnce ==
    /\ []Conserved
    /\ \A m \in Msgs : (Occurrences(mMessages, m) > 0) ~> (hist.handled[m] = 1)

C9_InfiniteWaitReturnsMessage ==
    (pc = "idle" /\ hist.waited /\ timeout < 0) => (result # NoMsg /\ ~again)

\* C9 witness: waitMessage(-1) has returned an ordinary message.
C9_Witness == pc = "idle" /\ hist.waited /\ timeout < 0 /\ result \in Msgs

Posts(p) == ppc[p] = "queueMessage" /\ ppc'[p] = "idle"

\* C11: a post with a negative delay is refused or treated as a post with delay
\* 0: when queueMessage() returns, the message is not on the list or its due
\* time is not earlier than the clock reading of the post.
C11_NegativeDelayClamped ==
    [][\A p \in Producers :
          Posts(p) => \/ Occurrences(mMessages', parg[p][1]) = 0
                      \/ when'[parg[p][1]] >= clock]_vars

\* The list is in ascending order of due time.
Sorted(list) ==
    \A i, j \in 1..Len(list) : i < j => when[list[i]] <= when[list[j]]

\* C12: the message list is sorted by due time, ascending, in every state.
C12_SortedList == Sorted(mMessages)

\* C13: in a call with timeout >= 0, a re-dispatch (the handler returned true)
\* leaves the deadline of the call as it was computed at entry.
C13_DeadlineComputedOnce ==
    [][(pc = "handler" /\ pc' = "lock" /\ timeout >= 0)
          => timeoutTime' = timeoutTime]_vars

\* C14: a post or an invalidate returns from under the mutex, and if the
\* consumer is parked it leaves it signalled; a signal stays until the consumer
\* wakes; the consumer parks in the lock hold in which it examined the queue;
\* and a parked consumer that has not been signalled has a deadline no later
\* than the due time of the head of the list.
C14_WakeCoverage ==
    [][/\ \A p \in Producers :
             (ppc[p] \in {"queueMessage", "invalidate"} /\ ppc'[p] = "idle")
                => (mLock = p /\ (Parked => (Parked' /\ signalled')))
       /\ (Parked /\ signalled /\ Parked') => signalled'
       /\ (~Parked /\ Parked') => (pc = "check" /\ mLock = Consumer)
       /\ (Parked' /\ ~signalled' /\ mMessages' # <<>>)
             => (sleepUntil' >= 0 /\ sleepUntil' <= when'[Head(mMessages')])]_vars

\* C14 witness: the consumer sleeps with a deadline, a message due before that
\* deadline has been posted to the head of the list, and the consumer has been
\* signalled.
C14_Witness ==
    /\ Parked /\ signalled /\ mMessages # <<>>
    /\ sleepUntil >= 0 /\ when[Head(mMessages)] < sleepUntil

\* Thread t is in a section of code that reads or writes the list or the latch.
InSection(t) == IF t = Consumer THEN pc = "check" ELSE ppc[t] # "idle"

\* C15: a thread that is in a section reading or writing the message list or
\* the latch (queueMessage, invalidate, dump, the inner loop of waitMessage)
\* holds the mutex, so no two threads are in such a section together; and the
\* list and the latch only change in a step of the thread holding the mutex.
C15_Exclusivity ==
    [][/\ \A t \in Producers \cup {Consumer} : InSection(t) => mLock = t
       /\ \A t, u \in Producers \cup {Consumer} :
             (InSection(t) /\ InSection(u)) => t = u
       /\ (mMessages' # mMessages \/ mInvalidate' # mInvalidate)
             => \E t \in Producers \cup {Consumer} :
                   mLock = t /\ InSection(t) /\ ~InSection(t)']_vars

\* C15 witness: a producer is inside dump() holding the mutex while the
\* consumer stands at its Autolock with messages on the list.
C15_Witness ==
    /\ \E p \in Producers : ppc[p] = "dump" /\ mLock = p
    /\ pc = "lock" /\ mMessages # <<>>

\* C16: while a handler runs the consumer does not hold the mutex.
C16_HandlerUnlocked == pc = "handler" => mLock # Consumer

\* C16 witness: a post has completed while the handler was running.
C16_Witness == pc = "handler" /\ hist.expect # NoMsg

\* C17: an invalidate made while a handler runs is kept: the latch stays set
\* until a selection of the invalidate message clears it, the consumer's next
\* look at the queue makes that selection, and a handler that returned true
\* sends the same call back to that look.
C17_InvalidateDuringHandler ==
    [][/\ (mInvalidate /\ ~mInvalidate') => (Selects /\ result' = INVALIDATE)
       /\ (pc = "check" /\ mInvalidate /\ pc' # "check")
             => (Selects /\ result' = INVALIDATE)
       /\ (pc = "handler" /\ mInvalidate /\ pc' # "handler")
             => (mInvalidate' /\ (again' => pc' = "lock"))]_vars

\* C17 witness: invalidate() was called while the handler of an ordinary
\* message was running.
C17_Witness == pc = "handler" /\ result \in Msgs /\ mInvalidate

\* The step in which waitMessage() returns nothing.
ReturnsNothing == pc # "idle" /\ pc' = "idle" /\ result' = NoMsg

\* C18: waitMessage() returns nothing only from a look at the queue, under the
\* mutex, that found a timeout given, the latch clear, no due head, and the
\* clock strictly past the deadline.
C18_NeverEarlyTimeout ==
    [][ReturnsNothing
          => /\ pc = "check" /\ mLock = Consumer
             /\ timeout >= 0
             /\ ~mInvalidate
             /\ ~HeadDue(clock)
             /\ clock > timeoutTime]_vars

\* C18 witness: a call with a timeout has returned nothing, with messages that
\* are not yet due on the list.
C18_Witness ==
    /\ pc = "idle" /\ hist.waited /\ result = NoMsg /\ timeout >= 0
    /\ mMessages # <<>> /\ ~mInvalidate

\* C19: the consumer parks without a deadline only when the list is empty and
\* the timeout is negative; otherwise it parks with a deadline: the due time of
\* the head, no later than the deadline of the call when there is a timeout,
\* and the deadline of the call when the list is empty.
C19_SleepDeadline ==
    [][(pc = "check" /\ Parked')
          => IF mMessages = <<>> /\ timeout < 0
             THEN sleepUntil' < 0
             ELSE sleepUntil' =
                     (IF mMessages = <<>> THEN timeoutTime
                      ELSE IF timeout >= 0 /\ when[Head(mMessages)] > timeoutTime
                           THEN timeoutTime
                           ELSE when[Head(mMessages)])]_vars

\* C20: a selection of the invalidate message and a timeout leave the list as
\* it is; a selection of an ordinary message takes the head off the list and
\* leaves the rest of the list and the latch as they are; invalidate() leaves
\* the list as it is and queueMessage() leaves the latch as it is.
C20_FrameConditions ==
    [][/\ (Selects /\ result' = INVALIDATE) => mMessages' = mMessages
       /\ ReturnsNothing => (mMessages' = mMessages /\ mInvalidate' = mInvalidate)
       /\ (Selects /\ result' \in Msgs)
             => /\ mMessages # <<>>
                /\ mMessages' = SubSeq(mMessages, 2, Len(mMessages))
                /\ mInvalidate' = mInvalidate
       /\ \A p \in Producers :
             (ppc[p] = "invalidate" /\ ppc'[p] = "idle")
                => (mMessages' = mMessages /\ when' = when)
       /\ \A p \in Producers : Posts(p) => mInvalidate' = mInvalidate]_vars

\* C20 witness: an ordinary message has been taken off a list of three, the
\* other two are still listed, and the latch is clear as it was.
C20_Witness ==
    pc = "handler" /\ result \in Msgs /\ Len(mMessages) = 2 /\ ~mInvalidate
====
